---- MODULE Spec2Model ----
(***************************************************************************)
(* Workspace identity and path-layout resolver of the CLDL editor          *)
(* (src/editor/workspace/paths.py), with the registration made by          *)
(* src/editor/main.py.                                                     *)
(*                                                                         *)
(* Text is a sequence of pieces (strings); computed text (identifiers,     *)
(* keys, file names) is held one character per piece, fixed layout names   *)
(* are held as one piece.  A filesystem path is the sequence of its        *)
(* components below the filesystem root <<>>.                              *)
(***************************************************************************)
EXTENDS Integers, Sequences, FiniteSets, TLC

VARIABLES
    org,        \* QCoreApplication.organizationName()
    app,        \* QCoreApplication.applicationName()
    platform,   \* "ok": Qt has a data location; "empty": it returns ""
    dirs,       \* the directories that exist
    files,      \* the non-directories (regular files) that exist
    denied,     \* the directories in which entries cannot be created
    dirs0,      \* the directories that existed when the process started
    last,       \* the last call made: operation, arguments, outcome
    packCalled, \* pack_temp_path has been called
    proc        \* racing processes: script and mkdir call stack of each

vars == <<org, app, platform, dirs, files, denied, dirs0, last, packCalled, proc>>

(***************************************************************************)
(* Text                                                                    *)
(***************************************************************************)
LowerHex == <<"0","1","2","3","4","5","6","7","8","9","a","b","c","d","e","f">>
UpperHex == <<"0","1","2","3","4","5","6","7","8","9","A","B","C","D","E","F">>

Alphabet ==
    LowerHex \o <<"A","B","C","D","E","F">> \o
    <<"g","h","i","l","m","n","o","p","r","t","u","-","_","{","}",":",".","/">>

Range(s) == {s[i] : i \in 1..Len(s)}

Code(c) == CHOOSE i \in 1..Len(Alphabet) : Alphabet[i] = c

IsLowerHexChar(c) == c \in Range(LowerHex)
IsHexChar(c) == c \in Range(LowerHex) \cup Range(UpperHex)

\* str.upper() on the characters of the alphabet
UpperChar(c) ==
    IF \E i \in 11..16 : LowerHex[i] = c
    THEN UpperHex[CHOOSE i \in 11..16 : LowerHex[i] = c]
    ELSE c
Upper(s) == [i \in 1..Len(s) |-> UpperChar(s[i])]

\* str.replace(old, "") : every non-overlapping occurrence, left to right
RECURSIVE Remove(_, _)
Remove(s, old) ==
    IF Len(s) < Len(old) THEN s
    ELSE IF SubSeq(s, 1, Len(old)) = old
         THEN Remove(SubSeq(s, Len(old) + 1, Len(s)), old)
         ELSE <<s[1]>> \o Remove(Tail(s), old)

\* str.strip(chars)
RECURSIVE LStrip(_, _)
LStrip(s, cs) == IF s # <<>> /\ s[1] \in cs THEN LStrip(Tail(s), cs) ELSE s
RECURSIVE RStrip(_, _)
RStrip(s, cs) ==
    IF s # <<>> /\ s[Len(s)] \in cs THEN RStrip(SubSeq(s, 1, Len(s) - 1), cs) ELSE s
Strip(s, cs) == RStrip(LStrip(s, cs), cs)

\* str.rfind(c): the last index of c, 0 when absent (Python: -1, indices from 0)
RFind(s, c) ==
    IF \E i \in 1..Len(s) : s[i] = c
    THEN CHOOSE i \in 1..Len(s) : s[i] = c /\ \A j \in (i+1)..Len(s) : s[j] # c
    ELSE 0

(***************************************************************************)
(* Optional arguments: None, or a value                                    *)
(***************************************************************************)
NoUid == [some |-> FALSE, s |-> <<>>]
Uid(s) == [some |-> TRUE, s |-> s]

NoPath == [some |-> FALSE, abs |-> FALSE, parts |-> <<>>]
AbsPath(parts) == [some |-> TRUE, abs |-> TRUE, parts |-> parts]
RelPath(parts) == [some |-> TRUE, abs |-> FALSE, parts |-> parts]

(***************************************************************************)
(* Permanent identifiers                                                   *)
(***************************************************************************)
UuidHexLen == 32
KeyDigestLen == 16
DigestHexLen == 64
MaxSeed == 2

\* The 32 hexadecimal digits of a version 4 identifier drawn from a seed.
Uuid4Hex(seed) ==
    [i \in 1..UuidHexLen |->
        IF i = 13 THEN "4"
        ELSE IF i = 17 THEN LowerHex[9 + (seed % 4)]
        ELSE LowerHex[((seed * 7 * i + i * i + 3 * seed) % 16) + 1]]

\* str(uuid.UUID): lower-case hex in 8-4-4-4-12 form
Hyphenated(h) ==
    SubSeq(h, 1, 8) \o <<"-">> \o SubSeq(h, 9, 12) \o <<"-">> \o
    SubSeq(h, 13, 16) \o <<"-">> \o SubSeq(h, 17, 20) \o <<"-">> \o
    SubSeq(h, 21, 32)

\* new_project_uid: str(uuid.uuid4())
new_project_uid(seed) == Hyphenated(Uuid4Hex(seed))

\* uuid.UUID(s) does not raise: "urn:" and "uuid:" removed, braces stripped,
\* hyphens removed, 32 characters left, read as a base 16 number.
isUUID_any36(s) == Len(s) = 36
isUUID(s) ==
    LET hex == Remove(Strip(Remove(Remove(s, <<"u","r","n",":">>),
                                   <<"u","u","i","d",":">>),
                            {"{", "}"}),
                      <<"-">>)
    IN  /\ Len(hex) = UuidHexLen
        /\ \A i \in 1..Len(hex) : IsHexChar(hex[i])

(***************************************************************************)
(* Container paths                                                         *)
(***************************************************************************)
Dot == <<".">>
DotDot == <<".", ".">>

\* The process's working directory and the symbolic links of the filesystem
\* the containers live in.
Cwd == << <<"a">> >>
IsLink(p) == p = << <<"l">> >>
ReadLink(p) == << <<"a">> >>

\* Path.resolve(): os.path.realpath of the absolute path, non-strict
RECURSIVE JoinRealPath(_, _)
JoinRealPath(path, rest) ==
    IF rest = <<>> THEN path
    ELSE LET name == Head(rest) IN
         IF name = <<>> \/ name = Dot THEN JoinRealPath(path, Tail(rest))
         ELSE IF name = DotDot
              THEN JoinRealPath(IF path = <<>> THEN path
                                ELSE SubSeq(path, 1, Len(path) - 1), Tail(rest))
         ELSE IF IsLink(Append(path, name))
              THEN JoinRealPath(<<>>, ReadLink(Append(path, name)) \o Tail(rest))
         ELSE JoinRealPath(Append(path, name), Tail(rest))

\* Path.absolute(): the working directory prepended, nothing resolved
AbsoluteOnly(cp) == IF cp.abs THEN cp.parts ELSE Cwd \o cp.parts
Resolve(cp) == JoinRealPath(<<>>, IF cp.abs THEN cp.parts ELSE Cwd \o cp.parts)

\* str(path) of an absolute path
RECURSIVE PathStr(_)
PathStr(parts) ==
    IF parts = <<>> THEN <<>>
    ELSE <<"/">> \o Head(parts) \o PathStr(Tail(parts))
AbsPathStr(parts) == IF parts = <<>> THEN <<"/">> ELSE PathStr(parts)

\* hashlib.sha256(bytes).hexdigest(): 64 lower-case hexadecimal characters,
\* a function of the bytes alone.  The compression function is replaced by
\* a polynomial mix over the character codes.
RECURSIVE Mix(_, _)
Mix(s, h) == IF s = <<>> THEN h ELSE Mix(Tail(s), (h * 33 + Code(Head(s))) % 65521)
sha256_hexdigest(s) ==
    LET h == Mix(s, 5381)
    IN  [i \in 1..DigestHexLen |-> LowerHex[(((h \div (i + 1)) + h * i + i * i) % 16) + 1]]

PathPrefix == <<"p","a","t","h","_">>

\* Path.name / Path.stem
PathName(cp) == IF cp.parts = <<>> THEN <<>> ELSE cp.parts[Len(cp.parts)]
NameOnly(cp) == PathName(cp)
Stem(cp) ==
    LET name == PathName(cp)
        i == RFind(name, ".")
    IN  IF 1 < i /\ i < Len(name) THEN SubSeq(name, 1, i - 1) ELSE name

(***************************************************************************)
(* project_key                                                             *)
(***************************************************************************)
NoErr == "None"

KeyOk(k) == [err |-> NoErr, key |-> k]
KeyErr(e) == [err |-> e, key |-> <<>>]

project_key_pathFirst(project_uid, container_path) ==
    IF container_path.some
    THEN KeyOk(PathPrefix \o
               SubSeq(sha256_hexdigest(AbsPathStr(Resolve(container_path))), 1, KeyDigestLen))
    ELSE IF project_uid.some /\ project_uid.s # <<>> /\ isUUID(project_uid.s)
         THEN KeyOk(project_uid.s)
         ELSE KeyErr("ValueError")

project_key(project_uid, container_path) ==
    IF project_uid.some /\ project_uid.s # <<>> /\ isUUID(project_uid.s)
    THEN KeyOk(project_uid.s)
    ELSE IF ~container_path.some
         THEN KeyErr("ValueError")
         ELSE LET absolute_path == AbsPathStr(Resolve(container_path))
                  digest == SubSeq(sha256_hexdigest(absolute_path), 1, KeyDigestLen)
              IN  KeyOk(PathPrefix \o digest)

(***************************************************************************)
(* The filesystem: os.mkdir, Path.is_dir, Path.mkdir                       *)
(***************************************************************************)
Parent(p) == IF p = <<>> THEN p ELSE SubSeq(p, 1, Len(p) - 1)
Ancestors(p) == {SubSeq(p, 1, n) : n \in 0..(Len(p) - 1)}

\* The outcome of the system call mkdir(p) in a filesystem whose directories are d.
os_mkdir(d, p) ==
    IF \E a \in Ancestors(p) : a \in files THEN "ENOTDIR"
    ELSE IF \E a \in Ancestors(p) : a \notin d THEN "ENOENT"
    ELSE IF p \in d \/ p \in files \/ p = <<>> THEN "EEXIST"
    ELSE IF Parent(p) \in denied THEN "EACCES"
    ELSE "OK"

is_dir(d, p) == p \in d

\* The exception Python raises for an errno
OSErrorOf(errno) ==
    CASE errno = "ENOENT"  -> "FileNotFoundError"
      [] errno = "EEXIST"  -> "FileExistsError"
      [] errno = "ENOTDIR" -> "NotADirectoryError"
      [] errno = "EACCES"  -> "PermissionError"

OSErrors == {"FileNotFoundError", "FileExistsError", "NotADirectoryError", "PermissionError"}

\* The keyword arguments of every mkdir call of paths.py
exist_ok_false == FALSE
exist_ok == TRUE
parents == TRUE

\* Path.mkdir(parents=ps, exist_ok=ok) run to its end with nothing else acting:
\* try os.mkdir; on FileNotFoundError make the parent, then the path itself
\* without parents; on any other OSError raise unless exist_ok and is_dir.
RECURSIVE Mkdir(_, _, _, _)
Mkdir(d, p, ps, ok) ==
    LET e == os_mkdir(d, p) IN
    IF e = "OK" THEN [err |-> NoErr, dirs |-> d \cup {p}]
    ELSE IF e = "ENOENT"
         THEN IF ~ps \/ Parent(p) = p THEN [err |-> OSErrorOf(e), dirs |-> d]
              ELSE LET r == Mkdir(d, Parent(p), TRUE, TRUE) IN
                   IF r.err # NoErr THEN r ELSE Mkdir(r.dirs, p, FALSE, ok)
    ELSE IF ~ok \/ ~is_dir(d, p) THEN [err |-> OSErrorOf(e), dirs |-> d]
         ELSE [err |-> NoErr, dirs |-> d]

\* except OSError: pass
RECURSIVE MkdirSwallow(_, _)
MkdirSwallow(d, p) ==
    LET e == os_mkdir(d, p) IN
    IF e = "OK" THEN [err |-> NoErr, dirs |-> d \cup {p}]
    ELSE IF e = "ENOENT" /\ Parent(p) # p
         THEN LET r == MkdirSwallow(d, Parent(p)) IN
              IF os_mkdir(r.dirs, p) = "OK"
              THEN [err |-> NoErr, dirs |-> r.dirs \cup {p}]
              ELSE [err |-> NoErr, dirs |-> r.dirs]
    ELSE [err |-> NoErr, dirs |-> d]

mkdir_swallow(d, p) == MkdirSwallow(d, p)
\* path.mkdir(parents=True, exist_ok=True)
mkdir(d, p) == Mkdir(d, p, parents, exist_ok)

\* The mkdir calls of a function one after the other; the first exception ends it.
RECURSIVE MkdirEach(_, _)
MkdirEach(d, targets) ==
    IF targets = <<>> THEN [err |-> NoErr, dirs |-> d]
    ELSE LET r == mkdir(d, Head(targets)) IN
         IF r.err # NoErr THEN r ELSE MkdirEach(r.dirs, Tail(targets))

(***************************************************************************)
(* Roots and base layout                                                   *)
(***************************************************************************)
\* The platform's per-user data location, which exists.
Base == << <<"AppLocalData">> >>

\* QStandardPaths.writableLocation(AppLocalDataLocation): the organisation and
\* application names, when not empty, below the data location.
writableLocation(o, a) ==
    Base \o (IF o = <<>> THEN <<>> ELSE <<o>>) \o (IF a = <<>> THEN <<>> ELSE <<a>>)

app_local_data_root(plat, o, a) ==
    IF plat = "empty"
    THEN [err |-> "RuntimeError", path |-> <<>>]
    ELSE [err |-> NoErr, path |-> writableLocation(o, a)]

AppDirs(root) ==
    [root       |-> root,
     workspaces |-> Append(root, <<"workspaces">>),
     backups    |-> Append(root, <<"backups">>),
     recovery   |-> Append(root, <<"recovery">>),
     logs       |-> Append(root, <<"logs">>)]

\* The directories ensure_base_dirs creates, in order
CreatedAll(ad) == <<ad.workspaces, ad.backups, ad.recovery, ad.logs>>
Created(ad) == <<ad.workspaces, ad.recovery, ad.logs>>

\* The outcome of a call: the exception (or None), the path or key returned,
\* and the directories afterwards.
Out(e, p, k, d) == [err |-> e, path |-> p, key |-> k, dirs |-> d]

ensure_base_dirs(d, plat, o, a) ==
    LET root == app_local_data_root(plat, o, a) IN
    IF root.err # NoErr THEN Out(root.err, <<>>, <<>>, d)
    ELSE LET ad == AppDirs(root.path)
             r == MkdirEach(d, Created(ad))
         IN  Out(r.err, IF r.err = NoErr THEN ad.root ELSE <<>>, <<>>, r.dirs)

(***************************************************************************)
(* Workspace layout                                                        *)
(***************************************************************************)
workspace_root(d, plat, o, a, project_uid, container_path) ==
    LET b == ensure_base_dirs(d, plat, o, a) IN
    IF b.err # NoErr THEN b
    ELSE LET k == project_key(project_uid, container_path) IN
         IF k.err # NoErr THEN Out(k.err, <<>>, <<>>, b.dirs)
         ELSE LET path == Append(AppDirs(b.path).workspaces, k.key)
                  r == mkdir(b.dirs, path)
              IN  Out(r.err, IF r.err = NoErr THEN path ELSE <<>>, k.key, r.dirs)

unpacked_dir(d, plat, o, a, project_uid, container_path) ==
    LET w == workspace_root(d, plat, o, a, project_uid, container_path) IN
    IF w.err # NoErr THEN w
    ELSE LET path == Append(w.path, <<"unpacked">>)
             r == mkdir(w.dirs, path)
         IN  Out(r.err, IF r.err = NoErr THEN path ELSE <<>>, w.key, r.dirs)

lock_path(d, plat, o, a, project_uid, container_path) ==
    LET w == workspace_root(d, plat, o, a, project_uid, container_path) IN
    IF w.err # NoErr THEN w
    ELSE Out(NoErr, Append(w.path, <<"lock.json">>), w.key, w.dirs)

session_path(d, plat, o, a, project_uid, container_path) ==
    LET w == workspace_root(d, plat, o, a, project_uid, container_path) IN
    IF w.err # NoErr THEN w
    ELSE Out(NoErr, Append(w.path, <<"session.json">>), w.key, w.dirs)

TmpSuffix == <<".tmp.cldl">>

pack_temp_path(d, plat, o, a, container_path) ==
    LET b == ensure_base_dirs(d, plat, o, a) IN
    IF b.err # NoErr THEN b
    ELSE LET tmp_dir == Append(b.path, <<"tmp">>)
             r == mkdir(b.dirs, tmp_dir)
         IN  Out(r.err,
                 IF r.err = NoErr THEN Append(tmp_dir, Stem(container_path) \o TmpSuffix)
                 ELSE <<>>,
                 <<>>, r.dirs)

(***************************************************************************)
(* Inputs                                                                  *)
(***************************************************************************)
\* main.py registers this identity; the usage note of debug_paths spells the
\* organisation differently.
MainOrg == <<"Chihara Yakou">>
MainApp == <<"CLDL Editor">>
OtherOrg == <<"ChiharaYakou">>
Orgs == {MainOrg, OtherOrg}
Apps == {MainApp}

\* Permanent identifiers as callers may pass them
Seeds == 1..MaxSeed
Canonical == {new_project_uid(n) : n \in Seeds}
Braced(u) == <<"{">> \o u \o <<"}">>
Urn(u) == <<"u","r","n",":","u","u","i","d",":">> \o u
Variants(u) == {u, Upper(u), Remove(u, <<"-">>), Braced(u), Urn(u)}
NotHex(u) == [u EXCEPT ![1] = "g"]
Malformed(u) ==
    {NotHex(u), SubSeq(u, 1, Len(u) - 1), Append(u, "0"),
     <<"n","o","t","-","a","-","u","u","i","d">>, <<>>}
AllUids ==
    {NoUid} \cup {Uid(v) : v \in UNION {Variants(u) : u \in Canonical}}
            \cup {Uid(m) : m \in UNION {Malformed(u) : u \in Canonical}}

\* Container file names, each given as the stem and the last suffix that
\* pathlib documents for it
Demo == <<"d","e","m","o",".","c","l","d","l">>
NameParts ==
    {[stem |-> <<"d","e","m","o">>, suffix |-> <<".","c","l","d","l">>],
     [stem |-> <<"d","e","m","o",".","t","m","p">>, suffix |-> <<".","c","l","d","l">>],
     [stem |-> <<"d","e","m","o">>, suffix |-> <<".","c">>],
     [stem |-> <<"d","e","m","o">>, suffix |-> <<>>],
     [stem |-> <<"d","e","m","o",".">>, suffix |-> <<>>],
     [stem |-> <<".","c","l","d","l">>, suffix |-> <<>>]}
Names == {n.stem \o n.suffix : n \in NameParts}

\* Container paths as callers may spell them: the spellings of the file
\* `name` of folder /a and of folder /b, the working directory being /a and
\* /l a symbolic link to /a.
Folders == { <<"a">>, <<"b">> }
SpellingsOf(folder, name) ==
    IF folder = <<"a">>
    THEN {AbsPath(<< <<"a">>, name>>), AbsPath(<< <<"l">>, name>>),
          RelPath(<<name>>), RelPath(<<Dot, name>>), RelPath(<<DotDot, <<"a">>, name>>),
          AbsPath(<< <<"b">>, DotDot, <<"a">>, name>>)}
    ELSE {AbsPath(<< <<"b">>, name>>), AbsPath(<< <<"l">>, DotDot, <<"b">>, name>>),
          RelPath(<<DotDot, <<"b">>, name>>)}
AllPaths == UNION {SpellingsOf(f, n) : f \in Folders, n \in Names}

\* The project identities the workspace operations are called with
GoodUid == Uid(new_project_uid(1))
BadUid == Uid(NotHex(new_project_uid(1)))
DemoAbs == AbsPath(<< <<"a">>, Demo>>)
DemoRel == RelPath(<<Demo>>)
Ident(u, c) == [uid |-> u, cp |-> c]
Identities ==
    {Ident(NoUid, NoPath), Ident(GoodUid, NoPath), Ident(GoodUid, DemoAbs),
     Ident(BadUid, NoPath), Ident(BadUid, DemoAbs), Ident(NoUid, DemoRel)}

(***************************************************************************)
(* State                                                                   *)
(***************************************************************************)
Call(op, u, c, r, again) ==
    [op |-> op, uid |-> u, cp |-> c, err |-> r.err, path |-> r.path, key |-> r.key,
     again |-> again]

\* Before the first call; in the specification of the pure functions the
\* arguments of the call to come.
Pending(u, c) == Call("start", u, c, Out(NoErr, <<>>, <<>>, {}), FALSE)
NoCall == Pending(NoUid, NoPath)

\* The call repeats the last one, which succeeded
Again(op, u, c) == last.op = op /\ last.uid = u /\ last.cp = c /\ last.err = NoErr

MainRoot == writableLocation(MainOrg, MainApp)
MainDirs == AppDirs(MainRoot)
Existing == {<<>>, Base}
Chain(p) == {SubSeq(p, 1, n) : n \in 0..Len(p)}
Fresh == [dirs |-> Existing, files |-> {}, denied |-> {}]

\* What the process may find on disk when it starts: nothing of the layout, a
\* regular file in the place of one of its directories or of a parent, a
\* read-only directory, or the layout with the backups directory that the
\* backup subsystem made.
Environments ==
    {Fresh,
     [dirs |-> Existing, files |-> {Append(Base, MainOrg)}, denied |-> {}],
     [dirs |-> Existing \cup Chain(MainRoot), files |-> {MainDirs.recovery}, denied |-> {}],
     [dirs |-> Existing \cup Chain(MainDirs.workspaces),
      files |-> {Append(MainDirs.workspaces, GoodUid.s)}, denied |-> {}],
     [dirs |-> Existing \cup Chain(MainRoot),
      files |-> {Append(MainRoot, <<"tmp">>)}, denied |-> {}],
     [dirs |-> Existing \cup Chain(MainDirs.workspaces) \cup Chain(MainDirs.recovery)
               \cup Chain(MainDirs.logs) \cup Chain(MainDirs.backups),
      files |-> {}, denied |-> {MainDirs.workspaces}],
     [dirs |-> Existing \cup Chain(MainRoot), files |-> {}, denied |-> {MainRoot}]}

InitIn(envs, plats, pending, o, a) ==
    /\ org = o
    /\ app = a
    /\ platform \in plats
    /\ \E e \in envs : dirs = e.dirs /\ files = e.files /\ denied = e.denied /\ dirs0 = e.dirs
    /\ last \in pending
    /\ packCalled = FALSE
    /\ proc = <<>>

(***************************************************************************)
(* Operations                                                              *)
(***************************************************************************)
\* QCoreApplication.setOrganizationName / setApplicationName
ensure_app_identity(org_name, app_name) ==
    /\ org' = org_name
    /\ app' = app_name
    /\ last' = Call("ensure_app_identity", NoUid, NoPath, Out(NoErr, <<>>, <<>>, {}), FALSE)
    /\ UNCHANGED <<platform, dirs, files, denied, dirs0, packCalled, proc>>

\* main(): ensure_app_identity("Chihara Yakou", "CLDL Editor"), before anything else
main ==
    /\ last.op = "start"
    /\ ensure_app_identity(MainOrg, MainApp)

\* A call that returns r
Returns(op, u, c, r) ==
    /\ last' = Call(op, u, c, r, Again(op, u, c))
    /\ dirs' = r.dirs
    /\ UNCHANGED <<org, app, platform, files, denied, dirs0, proc>>

call_app_local_data_root ==
    LET r == app_local_data_root(platform, org, app) IN
    /\ Returns("app_local_data_root", NoUid, NoPath, Out(r.err, r.path, <<>>, dirs))
    /\ UNCHANGED packCalled

call_ensure_base_dirs ==
    /\ Returns("ensure_base_dirs", NoUid, NoPath, ensure_base_dirs(dirs, platform, org, app))
    /\ UNCHANGED packCalled

call_new_project_uid(seed) ==
    /\ Returns("new_project_uid", NoUid, NoPath, Out(NoErr, <<>>, new_project_uid(seed), dirs))
    /\ UNCHANGED packCalled

call_project_key(u, c) ==
    LET k == project_key(u, c) IN
    /\ Returns("project_key", u, c, Out(k.err, <<>>, k.key, dirs))
    /\ UNCHANGED packCalled

call_workspace_root(u, c) ==
    /\ Returns("workspace_root", u, c, workspace_root(dirs, platform, org, app, u, c))
    /\ UNCHANGED packCalled

call_unpacked_dir(u, c) ==
    /\ Returns("unpacked_dir", u, c, unpacked_dir(dirs, platform, org, app, u, c))
    /\ UNCHANGED packCalled

call_lock_path(u, c) ==
    /\ Returns("lock_path", u, c, lock_path(dirs, platform, org, app, u, c))
    /\ UNCHANGED packCalled

call_session_path(u, c) ==
    /\ Returns("session_path", u, c, session_path(dirs, platform, org, app, u, c))
    /\ UNCHANGED packCalled

call_pack_temp_path(c) ==
    /\ Returns("pack_temp_path", NoUid, c, pack_temp_path(dirs, platform, org, app, c))
    /\ packCalled' = TRUE

(***************************************************************************)
(* The program: main registers the identity, then the callers of the       *)
(* resolver act in any order.                                              *)
(***************************************************************************)
Registered == last.op # "start"

Init == InitIn(Environments, {"ok"}, {NoCall}, <<>>, <<>>)

Next ==
    \/ main
    \/ Registered /\ call_app_local_data_root
    \/ Registered /\ call_ensure_base_dirs
    \/ Registered /\ \E i \in Identities : call_project_key(i.uid, i.cp)
    \/ Registered /\ \E i \in Identities : call_workspace_root(i.uid, i.cp)
    \/ Registered /\ \E i \in Identities : call_unpacked_dir(i.uid, i.cp)
    \/ Registered /\ \E c \in {DemoAbs, DemoRel} : call_pack_temp_path(c)

Spec == Init /\ [][Next]_vars

(***************************************************************************)
(* The resolver called in any order by any caller, registration included,  *)
(* with the names the repository uses.                                     *)
(***************************************************************************)
InitIdentity == InitIn({Fresh}, {"ok", "empty"}, {NoCall}, <<>>, <<>>)

NextIdentity ==
    \/ \E o \in Orgs, a \in Apps : ensure_app_identity(o, a)
    \/ call_app_local_data_root
    \/ call_ensure_base_dirs
    \/ call_lock_path(GoodUid, NoPath)
    \/ call_session_path(NoUid, DemoAbs)
    \/ call_pack_temp_path(DemoAbs)

SpecIdentity == InitIdentity /\ [][NextIdentity]_vars

(***************************************************************************)
(* The functions of the arguments alone, each applied once, after main's   *)
(* registration, to arguments drawn from every identifier and spelling.    *)
(***************************************************************************)
InitKey ==
    InitIn({Fresh}, {"ok"}, {Pending(u, c) : u \in AllUids, c \in AllPaths \cup {NoPath}},
           MainOrg, MainApp)

NextKey ==
    \/ last.op = "start" /\ \E n \in Seeds : call_new_project_uid(n)
    \/ last.op = "start" /\ call_project_key(last.uid, last.cp)
    \/ last.op = "start" /\ call_workspace_root(last.uid, last.cp)
    \/ last.op = "start" /\ last.cp.some /\ call_pack_temp_path(last.cp)
    \/ last.op = "new_project_uid" /\ call_project_key(Uid(last.key), NoPath)

SpecKey == InitKey /\ [][NextKey]_vars

(***************************************************************************)
(* Two processes of the application, each running one directory-creating   *)
(* operation.  Nothing is locked: a step is one system call (mkdir or the  *)
(* stat of is_dir) and the local computation after it, and the steps of    *)
(* the two processes interleave in any order.                              *)
(***************************************************************************)
Procs == {"P1", "P2"}
RaceOps == {"ensure_base_dirs", "workspace_root", "unpacked_dir", "pack_temp_path"}

\* The mkdir calls the operation makes, in order, and the path it returns
Script(op, u, c) ==
    LET ad == AppDirs(app_local_data_root("ok", MainOrg, MainApp).path)
        key == project_key(u, c).key
        ws == Append(ad.workspaces, key)
        tmp_dir == Append(ad.root, <<"tmp">>)
        targets ==
            CASE op = "ensure_base_dirs" -> Created(ad)
              [] op = "workspace_root"   -> Created(ad) \o <<ws>>
              [] op = "unpacked_dir"     -> Created(ad) \o <<ws, Append(ws, <<"unpacked">>)>>
              [] op = "pack_temp_path"   -> Created(ad) \o <<tmp_dir>>
        ret ==
            CASE op = "ensure_base_dirs" -> ad.root
              [] op = "workspace_root"   -> ws
              [] op = "unpacked_dir"     -> Append(ws, <<"unpacked">>)
              [] op = "pack_temp_path"   -> Append(tmp_dir, Stem(c) \o TmpSuffix)
    IN  [op |-> op, targets |-> targets, all |-> Range(targets), ret |-> ret,
         stack |-> <<>>, err |-> NoErr, done |-> FALSE, lost |-> FALSE]

Frame(p, ps, ok) == [p |-> p, ps |-> ps, ok |-> ok, at |-> "os_mkdir", errno |-> "OK"]

\* The next mkdir call of the script is entered when no call is in progress
Entered(pr) ==
    IF pr.stack = <<>> /\ pr.targets # <<>>
    THEN [pr EXCEPT !.stack = <<Frame(Head(pr.targets), parents, exist_ok)>>,
                    !.targets = Tail(pr.targets)]
    ELSE pr

Top(pr) == pr.stack[Len(pr.stack)]
Pop(pr) == SubSeq(pr.stack, 1, Len(pr.stack) - 1)

\* Path.mkdir returns: to the script, or to the mkdir that made the parent
\* first, which goes on with self.mkdir(mode, parents=False, exist_ok=exist_ok)
Return(pr) ==
    LET st == Pop(pr) IN
    IF st # <<>> /\ st[Len(st)].at = "parent"
    THEN [pr EXCEPT !.stack = [st EXCEPT ![Len(st)] = Frame(st[Len(st)].p, FALSE, st[Len(st)].ok)]]
    ELSE [pr EXCEPT !.stack = st]

Raise(pr, errno) == [pr EXCEPT !.err = OSErrorOf(errno), !.stack = <<>>]

Running(i) == proc[i].err = NoErr /\ ~proc[i].done

race_os_mkdir(i) ==
    LET pr == Entered(proc[i])
        f == Top(pr)
        e == os_mkdir(dirs, f.p)
    IN  /\ Running(i)
        /\ pr.stack # <<>>
        /\ f.at = "os_mkdir"
        /\ dirs' = IF e = "OK" THEN dirs \cup {f.p} ELSE dirs
        /\ proc' = [proc EXCEPT ![i] =
             IF e = "OK" THEN Return(pr)
             ELSE IF e = "ENOENT"
                  THEN IF ~f.ps \/ Parent(f.p) = f.p THEN Raise(pr, e)
                       ELSE [pr EXCEPT !.stack =
                               Append([pr.stack EXCEPT ![Len(pr.stack)].at = "parent"],
                                      Frame(Parent(f.p), TRUE, TRUE))]
             ELSE IF ~f.ok THEN Raise(pr, e)
                  ELSE [pr EXCEPT !.stack[Len(pr.stack)].at = "is_dir",
                                  !.stack[Len(pr.stack)].errno = e,
                                  !.lost = TRUE]]
        /\ UNCHANGED <<org, app, platform, files, denied, dirs0, last, packCalled>>

race_is_dir(i) ==
    LET pr == proc[i]
        f == Top(pr)
    IN  /\ Running(i)
        /\ pr.stack # <<>>
        /\ f.at = "is_dir"
        /\ proc' = [proc EXCEPT ![i] =
             IF is_dir(dirs, f.p) THEN Return(pr) ELSE Raise(pr, f.errno)]
        /\ UNCHANGED <<org, app, platform, dirs, files, denied, dirs0, last, packCalled>>

race_return(i) ==
    /\ Running(i)
    /\ proc[i].stack = <<>>
    /\ proc[i].targets = <<>>
    /\ proc' = [proc EXCEPT ![i].done = TRUE]
    /\ UNCHANGED <<org, app, platform, dirs, files, denied, dirs0, last, packCalled>>

InitRace ==
    /\ org = MainOrg
    /\ app = MainApp
    /\ platform = "ok"
    /\ dirs = Existing
    /\ files = {}
    /\ denied = {}
    /\ dirs0 = Existing
    /\ last = NoCall
    /\ packCalled = FALSE
    /\ proc \in [Procs -> {Script(op, GoodUid, DemoAbs) : op \in RaceOps}]

NextRace ==
    \/ \E i \in Procs : race_os_mkdir(i)
    \/ \E i \in Procs : race_is_dir(i)
    \/ \E i \in Procs : race_return(i)

SpecRace == InitRace /\ [][NextRace]_vars

(***************************************************************************)
(* Properties                                                              *)
(***************************************************************************)
Root == writableLocation(org, app)
Layout == AppDirs(Root)
TmpDir == Append(Root, <<"tmp">>)

\* The identifier is absent, empty or malformed
InvalidUids == {NoUid} \cup {Uid(m) : m \in UNION {Malformed(u) : u \in Canonical}}
ValidUids == AllUids \ InvalidUids

\* Two spellings of one container file
SameFile(c1, c2) ==
    \E f \in Folders, n \in Names : c1 \in SpellingsOf(f, n) /\ c2 \in SpellingsOf(f, n)

\* The stem pathlib documents for the file name of a spelling
StemOf(c) == (CHOOSE n \in NameParts : n.stem \o n.suffix = PathName(c)).stem

\* The two shapes of a key
IsCanonicalUuid(k) ==
    /\ Len(k) = 36
    /\ \A i \in 1..36 :
         IF i \in {9, 14, 19, 24} THEN k[i] = "-" ELSE IsLowerHexChar(k[i])
IsPathKey(k) ==
    /\ Len(k) = Len(PathPrefix) + KeyDigestLen
    /\ SubSeq(k, 1, Len(PathPrefix)) = PathPrefix
    /\ \A i \in (Len(PathPrefix) + 1)..Len(k) : IsLowerHexChar(k[i])

\* C1: registration is set-once: a step taken when the registered
\* organisation/application identity is already non-empty leaves the identity
\* (and so the platform root) unchanged.
C1_SetOnce ==
    [][(org # <<>> \/ app # <<>>) => (org' = org /\ app' = app /\ Root' = Root)]_vars

\* C2: two processes running directory-creating operations on the same paths
\* with no lock, their mkdir and is_dir steps interleaved in any order: no
\* call fails, the directories of a finished call exist, and two finished
\* calls of the same operation return the same path.
C2_RaceSafe ==
    \A i \in Procs :
        /\ proc[i].err = NoErr
        /\ proc[i].done => proc[i].all \subseteq dirs
        /\ \A j \in Procs :
             (proc[i].done /\ proc[j].done /\ proc[i].op = proc[j].op)
                 => proc[i].ret = proc[j].ret

\* Both processes ran unpacked_dir to the end and each found, at least once,
\* that the other had made the directory first.
C2_Witness ==
    \A i \in Procs : proc[i].op = "unpacked_dir" /\ proc[i].done /\ proc[i].lost

\* C3: workspace_root (unpacked_dir) called again right after a successful
\* call with the same project identity succeeds, returns the identical path
\* and leaves the set of directories as the first call left it.
C3_SecondCall ==
    [][(last'.again /\ last'.op \in {"workspace_root", "unpacked_dir"})
          => (last'.err = NoErr /\ last'.path = last.path /\ dirs' = dirs)]_vars

C3_Witness ==
    /\ last.again
    /\ last.op = "unpacked_dir"
    /\ last.err = NoErr
    /\ last.path \in dirs

\* C4: every key project_key returns is a canonical hyphenated lower-case
\* identifier or "path_" followed by 16 lower-case hexadecimal characters.
C4_KeyGrammar ==
    (last.op = "project_key" /\ last.err = NoErr)
        => (IsCanonicalUuid(last.key) \/ IsPathKey(last.key))

\* C5: with a valid permanent identifier u and any container path (or none),
\* project_key returns u unchanged and workspace_root returns <workspaces>/u.
C5_UidWins ==
    (last.op \in {"project_key", "workspace_root"} /\ last.uid \in ValidUids)
        => /\ last.err = NoErr
           /\ last.key = last.uid.s
           /\ last.op = "workspace_root" => last.path = Append(Layout.workspaces, last.uid.s)

C5_Witness ==
    /\ last.op = "workspace_root"
    /\ last.uid = GoodUid
    /\ last.cp = DemoAbs
    /\ last.err = NoErr
    /\ last.path \in dirs

\* C6: project_key with an absent, empty or malformed identifier fails with
\* ValueError when no container path is given, and with a container path
\* returns the key derived from the path.
C6_InvalidIdentity ==
    (last.op = "project_key" /\ last.uid \in InvalidUids)
        => IF last.cp.some
           THEN /\ last.err = NoErr
                /\ IsPathKey(last.key)
                /\ last.key = project_key(NoUid, last.cp).key
           ELSE last.err = "ValueError" /\ last.key = <<>>

C6_Witness ==
    /\ last.op = "project_key"
    /\ last.uid = BadUid
    /\ last.cp = NoPath
    /\ last.err = "ValueError"

\* C7: after workspace_root of a container path p1 with no identifier, every
\* spelling p2 of the same file has the same key, and workspace_root of p2
\* returns the same directory and creates nothing more.
C7_SameFileSameKey ==
    (last.op = "workspace_root" /\ last.uid = NoUid /\ last.cp.some)
        => /\ last.err = NoErr
           /\ \A c2 \in AllPaths :
                SameFile(last.cp, c2) =>
                    LET r == workspace_root(dirs, platform, org, app, NoUid, c2) IN
                    /\ project_key(NoUid, c2).key = last.key
                    /\ r.err = NoErr
                    /\ r.path = last.path
                    /\ r.dirs = dirs

C7_Witness ==
    /\ last.op = "workspace_root"
    /\ last.uid = NoUid
    /\ last.cp = AbsPath(<< <<"l">>, Demo>>)
    /\ last.err = NoErr
    /\ last.path \in dirs

\* The directories a call reaches with mkdir, in the state before the call
Reached(c) ==
    LET k == project_key(c.uid, c.cp)
        ws == Append(Layout.workspaces, k.key)
        base == {Layout.workspaces, Layout.recovery, Layout.logs}
    IN  CASE c.op = "ensure_base_dirs" -> base
          [] c.op = "pack_temp_path"   -> base \cup {TmpDir}
          [] c.op = "workspace_root"   -> base \cup (IF k.err = NoErr THEN {ws} ELSE {})
          [] c.op = "unpacked_dir"     ->
                base \cup (IF k.err = NoErr THEN {ws, Append(ws, <<"unpacked">>)} ELSE {})
          [] OTHER -> {}

\* A regular file is at p or at a parent of p, or p is missing below a
\* directory in which nothing can be created
Blocked(p) ==
    \/ \E a \in Chain(p) : a \in files
    \/ \E a \in Chain(p) : a \notin dirs /\ Parent(a) \in dirs /\ Parent(a) \in denied

\* C8: a directory-creating call whose directories all exist succeeds and
\* changes nothing; one that meets a regular file at a directory or at a
\* parent, or a directory it may not create in, fails with an OSError that
\* reaches the caller; no regular file is replaced or removed.
C8_Classified ==
    [][LET t == Reached(last') IN
        /\ (t # {} /\ t \subseteq dirs) => (dirs' = dirs /\ last'.err \in {NoErr, "ValueError"})
        /\ (\E p \in t : Blocked(p)) => last'.err \in OSErrors
        /\ files' = files
        /\ dirs' \cap files' = {}]_vars

C8_Witness ==
    /\ last.op = "workspace_root"
    /\ last.uid = GoodUid
    /\ last.err = "FileExistsError"
    /\ Append(Layout.workspaces, GoodUid.s) \in files

====
